---- MODULE Spec2Model ----
(***************************************************************************)
(* StringInspect (src/src/stringinspect.c): a command-line tool that       *)
(* prints, for the bytes of its first argument, four rows: the character,  *)
(* its hexadecimal value, its decimal value and its 8 binary digits.       *)
(*                                                                         *)
(* Standard output is modelled as the sequence of bytes written so far;    *)
(* every printf call of the program is one step.  A string is a sequence   *)
(* of bytes 1..255 (a C string holds no NUL).  Two properties of the build *)
(* are left open by the C standard and are chosen in Init: whether plain   *)
(* char is signed, and whether >> of a negative int is an arithmetic or a  *)
(* logical shift.                                                          *)
(***************************************************************************)
EXTENDS Integers, Sequences, FiniteSets, TLC

(* ------------------------------ bounds --------------------------------- *)

\* longest analysed string built from SampleBytes
MaxLen == 2
\* largest number of user arguments (argc - 1)
MaxArgs == 2

(* ------------------------- program constants --------------------------- *)

\* '\t', '\n', ' ', '-', '0', 'A' in the execution character set
TAB == 9
NL == 10
SP == 32
MINUS == 45
ZERO == 48
UPPER_A == 65
\* field width of %8c, %8X, %8d
FieldWidth == 8
\* the inner loop starts at bit 7
TopBit == 7
\* width of int and unsigned int
IntBits == 32

\* print_help: the twelve printf calls, concatenated
HelpText ==
  << 83, 116, 114, 105, 110, 103, 73, 110, 115, 112, 101, 99, 116, 32, 67, 76, 73, 32, 84, 111,
     111, 108, 10, 85, 115, 97, 103, 101, 58, 10, 32, 32, 115, 116, 114, 105, 110, 103, 105,
     110, 115, 112, 101, 99, 116, 32, 91, 79, 80, 84, 73, 79, 78, 83, 93, 32, 60, 115, 116,
     114, 105, 110, 103, 62, 10, 10, 79, 112, 116, 105, 111, 110, 115, 58, 10, 32, 32, 45, 104,
     44, 32, 45, 45, 104, 101, 108, 112, 32, 32, 32, 32, 32, 32, 32, 83, 104, 111, 119, 32,
     116, 104, 105, 115, 32, 104, 101, 108, 112, 32, 109, 101, 115, 115, 97, 103, 101, 10, 32,
     32, 45, 118, 44, 32, 45, 45, 118, 101, 114, 115, 105, 111, 110, 32, 32, 32, 32, 83, 104,
     111, 119, 32, 118, 101, 114, 115, 105, 111, 110, 32, 105, 110, 102, 111, 114, 109, 97,
     116, 105, 111, 110, 10, 10, 68, 101, 115, 99, 114, 105, 112, 116, 105, 111, 110, 58, 10,
     32, 32, 84, 104, 105, 115, 32, 116, 111, 111, 108, 32, 105, 110, 115, 112, 101, 99, 116,
     115, 32, 65, 83, 67, 73, 73, 44, 32, 72, 101, 120, 44, 32, 68, 101, 99, 105, 109, 97, 108,
     44, 32, 97, 110, 100, 32, 66, 105, 110, 97, 114, 121, 32, 114, 101, 112, 114, 101, 115,
     101, 110, 116, 97, 116, 105, 111, 110, 115, 32, 111, 102, 32, 101, 97, 99, 104, 32, 99,
     104, 97, 114, 97, 99, 116, 101, 114, 32, 105, 110, 32, 116, 104, 101, 32, 112, 114, 111,
     118, 105, 100, 101, 100, 32, 115, 116, 114, 105, 110, 103, 46, 10, 10, 69, 120, 97, 109,
     112, 108, 101, 115, 58, 10, 32, 32, 115, 116, 114, 105, 110, 103, 105, 110, 115, 112, 101,
     99, 116, 32, 34, 72, 101, 108, 108, 111, 34, 10, 32, 32, 115, 116, 114, 105, 110, 103,
     105, 110, 115, 112, 101, 99, 116, 32, 45, 104, 10, 32, 32, 115, 116, 114, 105, 110, 103,
     105, 110, 115, 112, 101, 99, 116, 32, 45, 45, 118, 101, 114, 115, 105, 111, 110, 10 >>
\* print_version
VersionText ==
  << 83, 116, 114, 105, 110, 103, 73, 110, 115, 112, 101, 99, 116, 32, 118, 101, 114, 115, 105,
     111, 110, 32, 49, 46, 48, 46, 48, 10 >>
\* printf("Please pass an argument\n")
UsageText ==
  << 80, 108, 101, 97, 115, 101, 32, 112, 97, 115, 115, 32, 97, 110, 32, 97, 114, 103, 117,
     109, 101, 110, 116, 10 >>
\* the text of "Input string: \"%s\"\n" before and after %s
EchoPrefix ==
  << 73, 110, 112, 117, 116, 32, 115, 116, 114, 105, 110, 103, 58, 32, 34 >>
EchoSuffix ==
  << 34, 10 >>
\* the row labels, as the printf calls write them
AsciiLabel ==
  << 65, 83, 67, 73, 73, 58 >>
HexLabel ==
  << 10, 72, 101, 120, 58 >>
DecLabel ==
  << 10, 68, 101, 99, 58 >>
BinLabel ==
  << 10, 66, 105, 110, 58 >>

\* the flag spellings compared against argv[1]
HelpShort == << 45, 104 >>
HelpLong == << 45, 45, 104, 101, 108, 112 >>
VersionShort == << 45, 118 >>
VersionLong == << 45, 45, 118, 101, 114, 115, 105, 111, 110 >>

(* --------------------------- argument vectors -------------------------- *)

\* argv[0]
ProgName == << 115, 116, 114, 105, 110, 103, 105, 110, 115, 112, 101, 99, 116 >>

\* bytes used to build the longer arguments: tab, newline, '-', 'A', 'h',
\* 'v', and the bytes 128 and 255 whose top bit is set
SampleBytes == {9, 10, 45, 65, 104, 118, 128, 255}

\* every non-NUL byte value
AllBytes == 1..255

Strings(S, n) == UNION {[1..k -> S] : k \in 0..n}

\* values of argv[1]: every one-byte string, every string of at most MaxLen
\* sample bytes, and the four flags
FirstArgs ==
  {<<c>> : c \in AllBytes} \cup Strings(SampleBytes, MaxLen)
    \cup {HelpShort, HelpLong, VersionShort, VersionLong}

\* values of argv[2], argv[3], ...
ExtraArgs == {HelpShort, <<65>>}

ArgVectors ==
  {<<ProgName>>} \cup
  {<<ProgName, a>> \o rest : a \in FirstArgs, rest \in Strings(ExtraArgs, MaxArgs - 1)}

(* ------------------------------- state --------------------------------- *)

VARIABLES
  argv,        \* the argument vector, argv[0] first
  charSigned,  \* the build: plain char is a signed type
  arithShift,  \* the build: >> of a negative int copies the sign bit
  pc,          \* position of the single thread of control
  out,         \* bytes written to standard output so far
  exitCode,    \* value returned by main, -1 while main runs
  invoked,     \* print_character_analysis has been called
  str_len,     \* print_character_analysis: str_len
  i,           \* print_character_analysis: the loop index i
  b            \* print_character_analysis: the bit index b

vars == <<argv, charSigned, arithShift, pc, out, exitCode, invoked, str_len, i, b>>

argc == Len(argv)

\* argv[k] with the C index k (argv[0] is the program name)
Arg(k) == argv[k + 1]

\* the parameter input of print_character_analysis
input == Arg(1)

(* ----------------------------- C library ------------------------------- *)

strlen(s) == Len(s)

RECURSIVE strcmpFrom(_, _, _)
strcmpFrom(s, t, k) ==
  LET cs == IF k <= Len(s) THEN s[k] ELSE 0
      ct == IF k <= Len(t) THEN t[k] ELSE 0
  IN  IF cs # ct THEN cs - ct
      ELSE IF cs = 0 THEN 0
      ELSE strcmpFrom(s, t, k + 1)

strcmp(s, t) == strcmpFrom(s, t, 1)

Pow2(n) == 2 ^ n

\* the value of the expression input[i] after integer promotion
CharToInt(c) == IF charSigned /\ c >= 128 THEN c - 256 ELSE c

\* hexadecimal digit k (0 = least significant) of the two's-complement
\* bit pattern of the int v, which is the unsigned int that %X prints
Nibble(v, k) == (v \div (16 ^ k)) % 16

\* v >> n for an int v and 0 <= n < IntBits; a logical shift of a negative
\* v by n >= 1 clears the n top bits of its bit pattern
ShiftRight(v, n) ==
  IF v >= 0 \/ arithShift \/ n = 0 THEN v \div Pow2(n)
  ELSE Pow2(IntBits - n - 1) + (Pow2(IntBits - n - 1) + (v \div Pow2(n)))

\* x & 0b00000001
AndOne(x) == x % 2

DigitChar(d) == IF d < 10 THEN ZERO + d ELSE UPPER_A + (d - 10)

\* the digits of n >= 0 in the given base, most significant first
RECURSIVE Digits(_, _)
Digits(n, base) ==
  IF n < base THEN <<DigitChar(n)>>
  ELSE Append(Digits(n \div base, base), DigitChar(n % base))

Spaces(n) == [k \in 1..n |-> SP]

\* right-justify in a field of width w; a longer text is not cut
PadLeft(w, s) == IF Len(s) >= w THEN s ELSE Spaces(w - Len(s)) \o s

\* printf("\t%8c", v)
FmtChar(v) == <<TAB>> \o PadLeft(FieldWidth, <<v % 256>>)

\* the uppercase hexadecimal digits of v converted to unsigned int, without
\* leading zeros
HexDigits(v) ==
  LET n == IntBits \div 4
      nz == {k \in 0..(n - 1) : Nibble(v, k) # 0}
      top == IF nz = {} THEN 0 ELSE CHOOSE k \in nz : \A m \in nz : m <= k
  IN  [j \in 1..(top + 1) |-> DigitChar(Nibble(v, top + 1 - j))]

\* FmtHex without the field width, as "\t%X" would print
FmtHexNoWidth(v) == <<TAB>> \o HexDigits(v)

\* printf("\t%8X", v)
FmtHex(v) == <<TAB>> \o PadLeft(FieldWidth, HexDigits(v))

\* printf("\t%8d", v)
FmtDec(v) ==
  <<TAB>> \o PadLeft(FieldWidth, IF v < 0 THEN <<MINUS>> \o Digits(-v, 10) ELSE Digits(v, 10))

\* BitOf with the bits taken from the low end first
BitOfLowFirst(c, n) == AndOne(ShiftRight(CharToInt(c), TopBit - n))

\* unsigned bit = (input[i] >> b) & 0b00000001
BitOf(c, n) == AndOne(ShiftRight(CharToInt(c), n))

\* printf("%u", bit)
FmtBit(bit) == Digits(bit, 10)

\* IsHelpFlag without the long spelling
IsHelpFlagShortOnly(s) == strcmp(s, HelpShort) = 0

IsHelpFlag(s) == strcmp(s, HelpShort) = 0 \/ strcmp(s, HelpLong) = 0

IsVersionFlag(s) == strcmp(s, VersionShort) = 0 \/ strcmp(s, VersionLong) = 0

(* ------------------------------ behaviour ------------------------------ *)

Init ==
  /\ argv \in ArgVectors
  /\ charSigned \in BOOLEAN
  /\ arithShift \in BOOLEAN
  /\ pc = "main"
  /\ out = <<>>
  /\ exitCode = -1
  /\ invoked = FALSE
  /\ str_len = 0
  /\ i = 0
  /\ b = 0

\* main: argc < 2
MainUsage ==
  /\ pc = "main"
  /\ argc < 2
  /\ out' = out \o UsageText
  /\ exitCode' = 1
  /\ pc' = "done"
  /\ UNCHANGED <<argv, charSigned, arithShift, invoked, str_len, i, b>>

\* main: argv[1] is -h or --help
MainHelp ==
  /\ pc = "main"
  /\ ~(argc < 2)
  /\ IsHelpFlag(Arg(1))
  /\ out' = out \o HelpText
  /\ exitCode' = 0
  /\ pc' = "done"
  /\ UNCHANGED <<argv, charSigned, arithShift, invoked, str_len, i, b>>

\* main: argv[1] is -v or --version
MainVersion ==
  /\ pc = "main"
  /\ ~(argc < 2)
  /\ ~IsHelpFlag(Arg(1))
  /\ IsVersionFlag(Arg(1))
  /\ out' = out \o VersionText
  /\ exitCode' = 0
  /\ pc' = "done"
  /\ UNCHANGED <<argv, charSigned, arithShift, invoked, str_len, i, b>>

\* main: printf("Input string: \"%s\"\n", argv[1])
MainEcho ==
  /\ pc = "main"
  /\ ~(argc < 2)
  /\ ~IsHelpFlag(Arg(1))
  /\ ~IsVersionFlag(Arg(1))
  /\ out' = out \o EchoPrefix \o Arg(1) \o EchoSuffix
  /\ pc' = "call"
  /\ UNCHANGED <<argv, charSigned, arithShift, exitCode, invoked, str_len, i, b>>

\* main calls print_character_analysis(argv[1]); strlen, printf("ASCII:"), i = 0
AsciiStart ==
  /\ pc = "call"
  /\ invoked' = TRUE
  /\ str_len' = strlen(input)
  /\ out' = out \o AsciiLabel
  /\ i' = 0
  /\ pc' = "ascii"
  /\ UNCHANGED <<argv, charSigned, arithShift, exitCode, b>>

\* one iteration of the ASCII loop
AsciiStep ==
  /\ pc = "ascii"
  /\ i < str_len
  /\ out' = out \o FmtChar(CharToInt(input[i + 1]))
  /\ i' = i + 1
  /\ UNCHANGED <<argv, charSigned, arithShift, pc, exitCode, invoked, str_len, b>>

\* the ASCII loop ends; printf("\nHex:"), i = 0
HexStart ==
  /\ pc = "ascii"
  /\ ~(i < str_len)
  /\ out' = out \o HexLabel
  /\ i' = 0
  /\ pc' = "hex"
  /\ UNCHANGED <<argv, charSigned, arithShift, exitCode, invoked, str_len, b>>

\* HexStep walking the input from its last byte
HexStepReversed ==
  /\ pc = "hex"
  /\ i < str_len
  /\ out' = out \o FmtHex(CharToInt(input[str_len - i]))
  /\ i' = i + 1
  /\ UNCHANGED <<argv, charSigned, arithShift, pc, exitCode, invoked, str_len, b>>

\* one iteration of the Hex loop
HexStep ==
  /\ pc = "hex"
  /\ i < str_len
  /\ out' = out \o FmtHex(CharToInt(input[i + 1]))
  /\ i' = i + 1
  /\ UNCHANGED <<argv, charSigned, arithShift, pc, exitCode, invoked, str_len, b>>

\* DecStart with a tab after the label
DecStartWithTab ==
  /\ pc = "hex"
  /\ ~(i < str_len)
  /\ out' = out \o DecLabel \o <<TAB>>
  /\ i' = 0
  /\ pc' = "dec"
  /\ UNCHANGED <<argv, charSigned, arithShift, exitCode, invoked, str_len, b>>

\* the Hex loop ends; printf("\nDec:"), i = 0
DecStart ==
  /\ pc = "hex"
  /\ ~(i < str_len)
  /\ out' = out \o DecLabel
  /\ i' = 0
  /\ pc' = "dec"
  /\ UNCHANGED <<argv, charSigned, arithShift, exitCode, invoked, str_len, b>>

\* one iteration of the Dec loop
DecStep ==
  /\ pc = "dec"
  /\ i < str_len
  /\ out' = out \o FmtDec(CharToInt(input[i + 1]))
  /\ i' = i + 1
  /\ UNCHANGED <<argv, charSigned, arithShift, pc, exitCode, invoked, str_len, b>>

\* BinStart without the line break that ends the Dec row
BinStartNoBreak ==
  /\ pc = "dec"
  /\ ~(i < str_len)
  /\ out' = out \o Tail(BinLabel)
  /\ i' = 0
  /\ pc' = "bin"
  /\ UNCHANGED <<argv, charSigned, arithShift, exitCode, invoked, str_len, b>>

\* the Dec loop ends; printf("\nBin:"), i = 0
BinStart ==
  /\ pc = "dec"
  /\ ~(i < str_len)
  /\ out' = out \o BinLabel
  /\ i' = 0
  /\ pc' = "bin"
  /\ UNCHANGED <<argv, charSigned, arithShift, exitCode, invoked, str_len, b>>

\* an iteration of the Bin loop begins; printf("\t"), b = 7
BinTab ==
  /\ pc = "bin"
  /\ i < str_len
  /\ out' = out \o <<TAB>>
  /\ b' = TopBit
  /\ pc' = "bit"
  /\ UNCHANGED <<argv, charSigned, arithShift, exitCode, invoked, str_len, i>>

\* one iteration of the bit loop
BitStep ==
  /\ pc = "bit"
  /\ b >= 0
  /\ out' = out \o FmtBit(BitOf(input[i + 1], b))
  /\ b' = b - 1
  /\ UNCHANGED <<argv, charSigned, arithShift, pc, exitCode, invoked, str_len, i>>

\* the bit loop ends; i++
BitEnd ==
  /\ pc = "bit"
  /\ ~(b >= 0)
  /\ i' = i + 1
  /\ pc' = "bin"
  /\ UNCHANGED <<argv, charSigned, arithShift, out, exitCode, invoked, str_len, b>>

\* the Bin loop ends; printf("\n"), return to main
BinEnd ==
  /\ pc = "bin"
  /\ ~(i < str_len)
  /\ out' = out \o <<NL>>
  /\ pc' = "return"
  /\ UNCHANGED <<argv, charSigned, arithShift, exitCode, invoked, str_len, i, b>>

\* main: return 0
MainReturn ==
  /\ pc = "return"
  /\ exitCode' = 0
  /\ pc' = "done"
  /\ UNCHANGED <<argv, charSigned, arithShift, out, invoked, str_len, i, b>>

Next ==
  \/ MainUsage
  \/ MainHelp
  \/ MainVersion
  \/ MainEcho
  \/ AsciiStart
  \/ AsciiStep
  \/ HexStart
  \/ HexStep
  \/ DecStart
  \/ DecStep
  \/ BinStart
  \/ BinTab
  \/ BitStep
  \/ BitEnd
  \/ BinEnd
  \/ MainReturn

Spec == Init /\ [][Next]_vars

TypeOK ==
  /\ argv \in ArgVectors
  /\ pc \in {"main", "call", "ascii", "hex", "dec", "bin", "bit", "return", "done"}
  /\ exitCode \in {-1, 0, 1}
  /\ invoked \in BOOLEAN
  /\ i \in 0..str_len
  /\ b \in -1..TopBit

(* --------------------- reading the written output ---------------------- *)

\* main has returned
Finished == pc = "done"

\* main has returned after analysing argv[1]
Analysed == Finished /\ invoked

\* the analysed bytes, as unsigned values
N == Len(Arg(1))

\* length of the echo line, line break included
EchoLen == Len(EchoPrefix) + N + Len(EchoSuffix)

\* width of one column: the tab and the field
ColWidth == 1 + FieldWidth

\* largest k <= from with s[k] = c, and 0 when there is none
RECURSIVE LastIndexOf(_, _, _)
LastIndexOf(s, c, from) ==
  IF from <= 0 THEN 0
  ELSE IF s[from] = c THEN from
  ELSE LastIndexOf(s, c, from - 1)

\* the positions of the last four line breaks of the output
BreakAfterBin == Len(out)
BreakAfterDec == LastIndexOf(out, NL, BreakAfterBin - 1)
BreakAfterHex == LastIndexOf(out, NL, BreakAfterDec - 1)
BreakAfterAscii == LastIndexOf(out, NL, BreakAfterHex - 1)

\* the four rows of a finished analysis, without their line breaks; the
\* ASCII row may itself hold tabs and line breaks copied from the input
BinRow == SubSeq(out, BreakAfterDec + 1, BreakAfterBin - 1)
DecRow == SubSeq(out, BreakAfterHex + 1, BreakAfterDec - 1)
HexRow == SubSeq(out, BreakAfterAscii + 1, BreakAfterHex - 1)
AsciiRow == SubSeq(out, EchoLen + 1, BreakAfterAscii - 1)

\* the pieces of s between the occurrences of c
RECURSIVE SplitFrom(_, _, _, _)
SplitFrom(s, c, k, cur) ==
  IF k > Len(s) THEN <<cur>>
  ELSE IF s[k] = c THEN <<cur>> \o SplitFrom(s, c, k + 1, <<>>)
  ELSE SplitFrom(s, c, k + 1, Append(cur, s[k]))

Split(s, c) == SplitFrom(s, c, 1, <<>>)

\* the tab-separated tokens of a row, after its label
Tokens(row) == Tail(Split(row, TAB))

\* the label of a row
Label(row) == Head(Split(row, TAB))

RECURSIVE StripSpaces(_)
StripSpaces(t) == IF t # <<>> /\ Head(t) = SP THEN StripSpaces(Tail(t)) ELSE t

\* value of a digit character, uppercase letters only; -1 for anything else
DigitVal(c) ==
  IF c \in 48..57 THEN c - 48 ELSE IF c \in 65..90 THEN c - 55 ELSE -1

IsNumeral(t, base) == t # <<>> /\ \A k \in 1..Len(t) : DigitVal(t[k]) \in 0..(base - 1)

\* values from ParseLimit upwards are all read as ParseLimit
ParseLimit == Pow2(24)

RECURSIVE ParseFrom(_, _, _, _)
ParseFrom(t, base, k, acc) ==
  IF k > Len(t) THEN acc
  ELSE ParseFrom(t, base, k + 1,
         IF acc * base + DigitVal(t[k]) >= ParseLimit THEN ParseLimit
         ELSE acc * base + DigitVal(t[k]))

\* the number a numeral denotes
Parse(t, base) == ParseFrom(t, base, 1, 0)

\* the number a decimal token with an optional minus sign denotes
ParseSigned(t) ==
  IF t # <<>> /\ Head(t) = MINUS THEN 0 - Parse(Tail(t), 10) ELSE Parse(t, 10)

IsSignedNumeral(t) ==
  IF t # <<>> /\ Head(t) = MINUS THEN IsNumeral(Tail(t), 10) ELSE IsNumeral(t, 10)

HexTok(k) == StripSpaces(Tokens(HexRow)[k])
DecTok(k) == StripSpaces(Tokens(DecRow)[k])
BinTok(k) == Tokens(BinRow)[k]

\* s occurs in t right after the first pos bytes
OccursAt(s, t, pos) == pos + Len(s) <= Len(t) /\ SubSeq(t, pos + 1, pos + Len(s)) = s

\* an argument that is one of the four flags
IsFlag(s) == s \in {HelpShort, HelpLong, VersionShort, VersionLong}

\* one user argument that is not a flag
OneTarget == argc = 2 /\ ~IsFlag(Arg(1))

(* ------------------------------- claims -------------------------------- *)

\* C1: whenever there are no user arguments or more than one (argc < 2 or
\* argc > 2), main writes the usage error, returns 1 and never calls
\* print_character_analysis.
C1_UsageErrorOnBadArgCount ==
  (argc < 2 \/ argc > 2) =>
    /\ ~invoked
    /\ Finished => (out = UsageText /\ exitCode = 1)

\* C2: every token of the Dec row is the base-10 numeral, without a sign, of
\* the unsigned value (0..255) of the corresponding input byte.
C2_DecTokenIsUnsignedValue ==
  Analysed =>
    /\ Len(Tokens(DecRow)) = N
    /\ \A k \in 1..N :
         /\ IsNumeral(DecTok(k), 10)
         /\ Parse(DecTok(k), 10) = Arg(1)[k]

\* C3: every token of the Hex row is, after its padding, at most two
\* uppercase hexadecimal digits with no 0x prefix, and read as hexadecimal
\* it is the unsigned value (0..255) of the corresponding input byte.
C3_HexTokenIsUnsignedValue ==
  Analysed =>
    /\ Len(Tokens(HexRow)) = N
    /\ \A k \in 1..N :
         /\ IsNumeral(HexTok(k), 16)
         /\ Len(HexTok(k)) <= 2
         /\ Parse(HexTok(k), 16) = Arg(1)[k]

\* C4: every token of the Bin row is exactly 8 characters, each '0' or '1',
\* most significant bit first: read as base 2 it is the unsigned value of
\* the corresponding input byte, also for the bytes 128..255.
C4_BinTokenIsEightBits ==
  Analysed =>
    /\ Len(Tokens(BinRow)) = N
    /\ \A k \in 1..N :
         /\ Len(BinTok(k)) = 8
         /\ IsNumeral(BinTok(k), 2)
         /\ Parse(BinTok(k), 2) = Arg(1)[k]

\* C4 witness: an analysis of a byte with the top bit set has finished on a
\* build with signed char and a logical right shift
C4_Witness ==
  /\ Analysed
  /\ charSigned /\ ~arithShift
  /\ \E k \in 1..N : Arg(1)[k] >= 128

\* C5: for every input byte, the Hex token read in base 16, the Dec token
\* read in base 10 and the Bin token read in base 2 are the same number.
C5_RoundTripAcrossRows ==
  Analysed =>
    \A k \in 1..N :
      /\ Parse(HexTok(k), 16) = ParseSigned(DecTok(k))
      /\ ParseSigned(DecTok(k)) = Parse(BinTok(k), 2)

\* the echo line of the analysed argument
EchoLine == EchoPrefix \o Arg(1) \o EchoSuffix

\* number of bytes written when the loop of a row has made k iterations:
\* the echo line, the rows before it, its label and k columns
AtAscii(k) == EchoLen + Len(AsciiLabel) + ColWidth * k
AtHex(k) == AtAscii(N) + Len(HexLabel) + ColWidth * k
AtDec(k) == AtHex(N) + Len(DecLabel) + ColWidth * k
AtBin(k) == AtDec(N) + Len(BinLabel) + ColWidth * k

\* a text is in its place as soon as the output is long enough to hold it
InPlace(s, pos) == Len(out) >= pos + Len(s) => OccursAt(s, out, pos)

\* C6: with exactly one argument that is not a flag, main returns 0 and the
\* output is the quoted echo line, then the ASCII, Hex, Dec and Bin rows in
\* this order, each ended by a line break; while a row is being written all
\* rows before it are complete.
C6_RowsInFixedOrder ==
  OneTarget =>
    /\ pc = "main" => out = <<>>
    /\ pc = "call" => out = EchoLine
    /\ pc = "ascii" => Len(out) = AtAscii(i)
    /\ pc = "hex" => Len(out) = AtHex(i)
    /\ pc = "dec" => Len(out) = AtDec(i)
    /\ pc = "bin" => Len(out) = AtBin(i)
    /\ pc = "bit" => Len(out) = AtBin(i) + 1 + (TopBit - b)
    /\ pc \in {"return", "done"} => Len(out) = AtBin(N) + 1
    /\ InPlace(EchoLine, 0)
    /\ InPlace(AsciiLabel, EchoLen)
    /\ InPlace(<<NL, 72, 101, 120, 58>>, AtAscii(N))
    /\ InPlace(<<NL, 68, 101, 99, 58>>, AtHex(N))
    /\ InPlace(<<NL, 66, 105, 110, 58>>, AtDec(N))
    /\ InPlace(<<NL>>, AtBin(N))
    /\ Finished => exitCode = 0
    /\ exitCode = 0 => Finished

\* C6 witness: the analysis of a two-byte argument that holds a line break
\* has finished
C6_Witness ==
  /\ OneTarget
  /\ Finished
  /\ N = 2
  /\ \E k \in 1..N : Arg(1)[k] = NL

\* no line of the text starts with the echo prefix or a row label
NoAnalysisLine(t) ==
  \A pos \in 0..Len(t) :
    (pos = 0 \/ t[pos] = NL) =>
      /\ ~OccursAt(<<73, 110, 112, 117, 116, 32, 115, 116, 114, 105, 110, 103, 58>>, t, pos)
      /\ ~OccursAt(AsciiLabel, t, pos)
      /\ ~OccursAt(Tail(HexLabel), t, pos)
      /\ ~OccursAt(Tail(DecLabel), t, pos)
      /\ ~OccursAt(Tail(BinLabel), t, pos)

\* C7: when argv[1] is -h or --help main writes only the help text, when it
\* is -v or --version only the version text; main returns 0,
\* print_character_analysis is never called and the output has no echo
\* line and no ASCII, Hex, Dec or Bin row.
C7_FlagsPrintStaticText ==
  (argc >= 2 /\ IsFlag(Arg(1))) =>
    /\ ~invoked
    /\ pc \in {"main", "done"}
    /\ NoAnalysisLine(out)
    /\ Finished =>
         /\ exitCode = 0
         /\ Arg(1) \in {HelpShort, HelpLong} => out = HelpText
         /\ Arg(1) \in {VersionShort, VersionLong} => out = VersionText

\* C7 witness: main has returned after the long spelling of the help flag
C7_Witness ==
  /\ Finished
  /\ argc >= 2
  /\ Arg(1) = HelpLong
  /\ out # <<>>

\* the output for the empty argument: "Input string: \"\"" and four labels
EmptyReport ==
  << 73, 110, 112, 117, 116, 32, 115, 116, 114, 105, 110, 103, 58, 32, 34, 34, 10,
     65, 83, 67, 73, 73, 58, 10,
     72, 101, 120, 58, 10,
     68, 101, 99, 58, 10,
     66, 105, 110, 58, 10 >>

\* C8: for the empty string argument main returns 0 and each of the four
\* rows is exactly its label followed directly by the line break.
C8_EmptyInputRowsAreLabels ==
  (argc = 2 /\ Arg(1) = <<>> /\ Finished) =>
    /\ exitCode = 0
    /\ invoked
    /\ out = EmptyReport

\* C8 witness: the analysis of the empty argument has finished
C8_Witness ==
  /\ argc = 2
  /\ Arg(1) = <<>>
  /\ Finished
  /\ invoked
  /\ str_len = 0

\* the last two characters of a token, or the token when it is shorter
LastTwo(t) == IF Len(t) <= 2 THEN t ELSE SubSeq(t, Len(t) - 1, Len(t))

\* C9: every row of an analysis of N bytes has exactly N tokens, the k-th
\* token of every row comes from the k-th input byte, and every loop ends
\* after exactly N iterations.
C9_NTokensPerRowInInputOrder ==
  /\ invoked => (str_len = N /\ i \in 0..N)
  /\ Analysed =>
       /\ i = N
       /\ Len(AsciiRow) = Len(AsciiLabel) + ColWidth * N
       /\ Len(Tokens(HexRow)) = N
       /\ Len(Tokens(DecRow)) = N
       /\ Len(Tokens(BinRow)) = N
       /\ \A k \in 1..N :
            /\ AsciiRow[Len(AsciiLabel) + ColWidth * k] = Arg(1)[k]
            /\ Parse(LastTwo(HexTok(k)), 16) = Arg(1)[k]
            /\ ParseSigned(DecTok(k)) % 256 = Arg(1)[k]
            /\ Parse(BinTok(k), 2) = Arg(1)[k]

\* C9 witness: an analysis of two different bytes has finished
C9_Witness ==
  /\ Analysed
  /\ N = 2
  /\ Arg(1)[1] # Arg(1)[2]
  /\ i = 2

\* the columns of a row: after the label, n times a tab and a field of
\* FieldWidth bytes
HasColumns(row, label, n) ==
  /\ Len(row) = Len(label) + ColWidth * n
  /\ OccursAt(label, row, 0)
  /\ \A k \in 0..(n - 1) : row[Len(label) + ColWidth * k + 1] = TAB

\* the field of column k (from 1) of a row
Field(row, label, k) ==
  SubSeq(row, Len(label) + ColWidth * (k - 1) + 2, Len(label) + ColWidth * k)

\* C10: in each of the four rows every byte of the input, 128..255 included,
\* takes one tab followed by a field of exactly 8 characters, so the k-th
\* columns of the four rows have the same width.
C10_ColumnsAligned ==
  Analysed =>
    /\ HasColumns(AsciiRow, AsciiLabel, N)
    /\ HasColumns(HexRow, Tail(HexLabel), N)
    /\ HasColumns(DecRow, Tail(DecLabel), N)
    /\ HasColumns(BinRow, Tail(BinLabel), N)
    /\ \A k \in 1..N :
         /\ SubSeq(Field(AsciiRow, AsciiLabel, k), 1, 7) = Spaces(7)
         /\ \A j \in 1..8 :
              /\ Field(HexRow, Tail(HexLabel), k)[j] # TAB
              /\ Field(DecRow, Tail(DecLabel), k)[j] # TAB
              /\ Field(BinRow, Tail(BinLabel), k)[j] \in {ZERO, ZERO + 1}

\* C10 witness: an analysis has finished, on a build with signed char, of
\* two bytes of which one is 255 and the other a tab
C10_Witness ==
  /\ Analysed
  /\ charSigned
  /\ N = 2
  /\ \E k \in 1..N : Arg(1)[k] = 255
  /\ \E k \in 1..N : Arg(1)[k] = TAB
====
